---- MODULE Spec2Model ----
(***************************************************************************)
(* Model of src/augment.py: the knowledge-distillation training and        *)
(* evaluation orchestrator (main, train, validate).                         *)
(*                                                                          *)
(* A run is one call of main(): the configuration is read, the student,    *)
(* the matcher (emd_tool) and the teacher are built, and the epoch loop    *)
(* alternates train() and validate(), compares the validation metric with  *)
(* best_top1 and requests a checkpoint.  External collaborators (networks, *)
(* loss functions, compute_metrics, the matcher) are represented by the    *)
(* effects the orchestrator can observe; their numeric results are drawn   *)
(* from small sets.  A Python exception ends the run (pc = "aborted") and  *)
(* its class name is kept in err.                                           *)
(***************************************************************************)
EXTENDS Integers, Sequences, FiniteSets, TLC

\* ------------------------------------------------------------------ bounds
MaxEpochs == 2          \* config.epochs ranges over 0..MaxEpochs
MaxTrainBatches == 2    \* len(train_dataloader) ranges over 0..MaxTrainBatches
MaxEvalBatches == 1     \* len(eval_dataloader) ranges over 0..MaxEvalBatches

\* Values a task metric can take, scaled to integers: mcc and corr range
\* over [-1, 1], acc and f1 over [0, 1].
MetricValues == {-1, 0, 1}

\* Values the matcher's loss can return (a positive scalar).
RepLossValues == {1, 2}

\* ------------------------------------------------------------- vocabulary
KnownTasks == {"cola", "sst-2", "mnli", "mnli-mm", "qnli", "rte", "books",
               "mrpc", "qqp", "sts-b"}
\* One identifier outside the table stands for every unknown task.
TaskNames == KnownTasks \cup {"wnli"}

OutputModes == {"classification", "regression", "multilabel"}

UNBOUND == "UNBOUND"    \* a Python local that no branch has assigned
NONE == "None"

VARIABLES
    config,            \* AugmentConfig: datasets, epochs and the four flags
    output_mode,       \* model.output_mode, from utils.load_glue_dataset
    train_dataloader,  \* len(train_dataloader)
    eval_dataloader,   \* len(eval_dataloader)
    pc,                \* position of main: loop, train, validate, compare, checkpoint,
                       \* done, aborted
    err,               \* class of the exception that ended the run, or NONE
    epoch,             \* loop variable of main
    step,              \* batches consumed by the running train()/validate() loop
    model,             \* the student: mode, optimizer updates applied, drop_prob
    teacher_model,     \* the teacher: loaded, mode, parameter version, whether a forward
                       \* pass was recorded by autograd (tracked) and whether a backward
                       \* pass has walked a graph holding its parameters (in_backward)
    emd_tool,          \* the matcher: built or None, version of its layer weights
    criterion,         \* local criterion of train()/validate()
    lr_steps,          \* number of lr_scheduler.step() calls
    best_top1,         \* main's best_top1
    top1,              \* value returned by the last validate(), Unbound before
    is_best,           \* main's is_best, Unbound before the first comparison
    checkpoints,       \* sequence of save_checkpoint requests
    meters,            \* AverageMeter update counts of the running phase
    last_step,         \* what the last training step did
    fields,            \* metric field selected by the last train / validate dispatch
    hist,              \* history: number of metrics validate has returned (n), their
                       \* maximum (seen), the maximum before the last one (before),
                       \* best_top1 before the last comparison (best_before)
    flag_hist,         \* history: is_best computed in each epoch
    reported,          \* value logged by the final "Final best" line, Unbound before
    val,               \* validate(): its lists preds and eval_labels, the calls of its
                       \* last batch and the student's mode there, the number of
                       \* compute_metrics calls and the size of the set it was given,
                       \* and what the pass found on entry (history)
    trace              \* history: the orchestrator's calls of the current epoch (events),
                       \* the phases the run went through (phases), the drop-path
                       \* probabilities handed to the student (drops)

inputs == <<config, output_mode, train_dataloader, eval_dataloader>>

vars == <<config, output_mode, train_dataloader, eval_dataloader, pc, err,
          epoch, step, model, teacher_model, emd_tool, criterion, lr_steps,
          best_top1, top1, is_best, checkpoints, meters, last_step, fields,
          hist, flag_hist, reported, val, trace>>

\* ---------------------------------------------------------- pure helpers

\* train(), lines 219-226: the if/elif chain that binds train_acc.
TrainDispatchQqpAcc(task_name) ==
    IF task_name = "cola" THEN "mcc"
    ELSE IF task_name \in {"sst-2", "mnli", "mnli-mm", "qnli", "rte", "books", "qqp"} THEN "acc"
    ELSE IF task_name \in {"mrpc"} THEN "f1"
    ELSE IF task_name = "sts-b" THEN "corr"
    ELSE UNBOUND

TrainDispatch(task_name) ==
    IF task_name = "cola" THEN "mcc"
    ELSE IF task_name \in {"sst-2", "mnli", "mnli-mm", "qnli", "rte", "books"} THEN "acc"
    ELSE IF task_name \in {"mrpc", "qqp"} THEN "f1"
    ELSE IF task_name = "sts-b" THEN "corr"
    ELSE UNBOUND

\* validate(), lines 274-281: the if/elif chain that binds acc.
ValidateDispatch(task_name) ==
    IF task_name = "cola" THEN "mcc"
    ELSE IF task_name \in {"sst-2", "mnli", "mnli-mm", "qnli", "rte", "books"} THEN "acc"
    ELSE IF task_name \in {"mrpc", "qqp"} THEN "f1"
    ELSE IF task_name = "sts-b" THEN "corr"
    ELSE UNBOUND

\* train() lines 161-164 and validate() lines 239-242: no else branch.
SelectCriterion(mode) ==
    IF mode = "classification" THEN "CrossEntropyLoss"
    ELSE IF mode = "regression" THEN "MSELoss"
    ELSE UNBOUND

Unbound == <<>>         \* a Python local slot that holds nothing yet
Bound(v) == <<v>>       \* a Python local slot holding v

\* train(), lines 196-202, inside "if config.use_kd": the matcher's
\* update_weight is reached only under use_emd and update_emd.
CallsUpdateWeightUngated(cfg) ==
    cfg.use_kd /\ cfg.use_emd

CallsUpdateWeight(cfg) ==
    cfg.use_kd /\ cfg.use_emd /\ cfg.update_emd

\* train(), lines 194-206: the scalar handed to loss.backward().  task is the
\* criterion applied to (logits, y), kd says whether it is the value returned
\* by distillation_loss, rep_term is the contribution of rep_loss.
BackpropLossWithRep(cfg, crit, rep_loss) ==
    IF cfg.use_kd
    THEN [task |-> NONE, kd |-> TRUE, rep_term |-> rep_loss]
    ELSE [task |-> crit, kd |-> FALSE, rep_term |-> 0]

BackpropLoss(cfg, crit, rep_loss) ==
    IF cfg.use_kd
    THEN [task |-> NONE, kd |-> TRUE, rep_term |-> 0]
    ELSE [task |-> crit, kd |-> FALSE, rep_term |-> 0]

NoLoss == [task |-> NONE, kd |-> FALSE, rep_term |-> 0]

\* A training step that has not called the matcher.
NoMatcherCall == [used |-> 0, flow |-> <<>>, distance |-> <<>>, args |-> <<>>]

\* main(), line 136: the comparison that decides is_best.
IsNewBest(best, v) == best < v

\* main(), line 141: utils.save_checkpoint(model, config.path, is_best) is
\* called unconditionally, with the is_best just assigned.
SaveCheckpointOnlyBest(cps, ep, flag) ==
    IF flag THEN Append(cps, [epoch |-> ep, is_best |-> flag]) ELSE cps

SaveCheckpoint(cps, ep, flag) ==
    Append(cps, [epoch |-> ep, is_best |-> flag])

\* validate(), line 267: preds = preds[0] on the list filled by the batch
\* loop; with no batch the list is empty and the subscript raises.
FirstPredsZeroOnEmpty(n_batches) == NONE

FirstPreds(n_batches) ==
    IF n_batches = 0 THEN "IndexError" ELSE NONE

\* main(), line 124: drop_prob = config.drop_path_prob * epoch / config.epochs,
\* kept as the fraction <<numerator, denominator>> of the ceiling
\* config.drop_path_prob (taken positive).
DropPathProbNextEpoch(ep, epochs) == <<ep + 1, epochs>>

DropPathProb(ep, epochs) == <<ep, epochs>>

\* main(), line 130: lr_scheduler.step() follows the call of train(), outside
\* the batch loop of lines 166-234: one advance whatever the number of batches.
LrSchedulerStepPerBatch(steps, batches) == steps + batches

LrSchedulerStep(steps, batches) == steps + 1

\* main(), line 123: for epoch in range(config.epochs) runs its body while
\* epoch < config.epochs.
LoopContinuesInclusive(ep, epochs) == ep <= epochs

LoopContinues(ep, epochs) == ep < epochs

\* A phase of the run, as the orchestrator's state machine names it.
Phase(name, ep) == [state |-> name, epoch |-> ep]

\* The matcher (kdTool.Emd_Evaluator) as the orchestrator sees it: loss()
\* computes from the layer weights and leaves them alone, update_weight()
\* replaces them (counted as a new version).
MatcherLoss(weight) == weight

MatcherUpdateWeight(weight) == weight + 1

\* main(), lines 90-92: emd_tool is an Emd_Evaluator iff use_emd and use_kd,
\* None otherwise.
BuildsMatcherWheneverEmd(cfg) == cfg.use_emd

BuildsMatcher(cfg) == cfg.use_emd /\ cfg.use_kd

\* train(), line 159: model.train(); validate(), line 244: model.eval().
\* The value is the student's training flag after the call.
StudentModeInTrainKept(training) == training

StudentModeInTrain(training) == TRUE

StudentModeInValidate(training) == FALSE

\* train(), line 200: what emd_tool.loss returns besides rep_loss, named by
\* the batch it was computed for and the weight version it was computed with.
EmdLossResult(ep, st, weight) ==
    [flow |-> <<"flow", ep, st, weight>>, distance |-> <<"distance", ep, st, weight>>]

\* train(), line 202: emd_tool.update_weight(flow, distance).
UpdateWeightArgsSwapped(flow, distance) == <<distance, flow>>

UpdateWeightArgs(flow, distance) == <<flow, distance>>

\* train(), lines 175-228 with clipping moved behind the optimizer step.
StepOpsClipAfterStep(cfg) ==
    <<"zero_grad", "student_forward">>
    \o (IF cfg.use_emd THEN <<"unpack">> ELSE <<>>)
    \o (IF cfg.use_kd
        THEN <<"teacher_forward", "distillation_loss">>
             \o (IF cfg.use_emd
                 THEN (IF cfg.hidn2attn THEN <<"convert_to_attn">> ELSE <<>>)
                      \o <<"emd_loss">>
                      \o (IF CallsUpdateWeight(cfg) THEN <<"update_weight">> ELSE <<>>)
                 ELSE <<>>)
        ELSE <<"criterion">>)
    \o <<"backward", "optimizer_step", "clip_grad_norm", "compute_metrics",
         "dispatch", "losses_update", "top1_update">>

\* train(), lines 175-228: the calls of one training step in program order.
StepOps(cfg) ==
    <<"zero_grad", "student_forward">>
    \o (IF cfg.use_emd THEN <<"unpack">> ELSE <<>>)
    \o (IF cfg.use_kd
        THEN <<"teacher_forward", "distillation_loss">>
             \o (IF cfg.use_emd
                 THEN (IF cfg.hidn2attn THEN <<"convert_to_attn">> ELSE <<>>)
                      \o <<"emd_loss">>
                      \o (IF CallsUpdateWeight(cfg) THEN <<"update_weight">> ELSE <<>>)
                 ELSE <<>>)
        ELSE <<"criterion">>)
    \o <<"backward", "clip_grad_norm", "optimizer_step", "compute_metrics",
         "dispatch", "losses_update", "top1_update">>

\* The examples of batch b of an evaluation source of n batches: full batches
\* of two examples and a last batch of one, each example named <<b, k>>.
EvalBatch(b, n) == [k \in 1..(IF b = n - 1 THEN 1 ELSE 2) |-> <<b, k>>]

\* validate(), lines 255 and 253: the logits rows and the labels of a batch,
\* one per example, in the batch's order.
Logits(batch) == [i \in 1..Len(batch) |-> <<"pred", batch[i]>>]
Labels(batch) == [i \in 1..Len(batch) |-> <<"label", batch[i]>>]

\* validate(), lines 261-264: preds is a list holding one array; a batch's
\* logits are appended below the rows already there.
AppendPreds(preds, logits) ==
    IF Len(preds) = 0 THEN <<logits>> ELSE <<preds[1] \o logits>>

\* validate(), line 265: eval_labels.extend(y).
ExtendLabels(eval_labels, y) == eval_labels \o y

\* validate(), lines 267-271: preds = preds[0], then argmax over axis 1
\* (classification) or np.squeeze (regression).  argmax keeps one entry per
\* row; np.squeeze drops every axis of length one, so an array of one row
\* becomes a 0-dimensional scalar.  rank is the number of axes left.
Postprocess(mode, rows) ==
    IF mode = "classification" THEN [rank |-> 1, items |-> rows]
    ELSE IF mode = "regression"
         THEN [rank |-> IF Len(rows) = 1 THEN 0 ELSE 1, items |-> rows]
    ELSE [rank |-> 2, items |-> rows]

\* validate(), lines 255-265: the calls of one evaluation batch.
ValidateOps(cfg) ==
    <<"student_forward">>
    \o (IF cfg.use_emd THEN <<"unpack">> ELSE <<>>)
    \o <<"criterion", "append_preds", "extend_labels">>

\* validate() before any batch, entered with the run in the given state.
NoValidation(updates, weight, tracked) ==
    [preds |-> <<>>, eval_labels |-> <<>>, ops |-> <<>>, student_training |-> FALSE,
     metric_calls |-> 0, metric_over |-> [rank |-> 2, items |-> <<>>],
     entry |-> [updates |-> updates, weight |-> weight, tracked |-> tracked]]

\* The exception a call of the training step raises, or NONE.
\*   criterion (line 206): the local is unbound for an unrecognized mode;
\*   distillation_loss (line 194): receives model.output_mode and may reject it;
\*   compute_metrics (line 217): may reject an unknown task name;
\*   top1.update(train_acc, N) (line 228): train_acc is unbound when no
\*   branch of the dispatch matched;
\*   emd_tool.loss / emd_tool.update_weight (lines 200, 202): an attribute of
\*   None when the matcher was not built.
StepRaises(op, crit, mode, task, built, kd_raises, cm_raises) ==
    IF op = "criterion" /\ crit = UNBOUND THEN "UnboundLocalError"
    ELSE IF op \in {"emd_loss", "update_weight"} /\ ~built THEN "AttributeError"
    ELSE IF op = "distillation_loss" /\ kd_raises
                /\ mode \notin {"classification", "regression"} THEN "KdToolError"
    ELSE IF op = "compute_metrics" /\ cm_raises /\ task \notin KnownTasks THEN "KeyError"
    ELSE IF op = "top1_update" /\ TrainDispatch(task) = UNBOUND THEN "UnboundLocalError"
    ELSE NONE

\* Number of calls of ops that complete before the first one that raises.
Completed(ops, crit, mode, task, built, kd_raises, cm_raises) ==
    LET bad == {i \in 1..Len(ops) :
                  StepRaises(ops[i], crit, mode, task, built, kd_raises, cm_raises) # NONE}
    IN IF bad = {} THEN Len(ops)
       ELSE (CHOOSE i \in bad : \A j \in bad : i <= j) - 1

\* The answers an external collaborator can give where the choice matters.
ExternalAnswers(open) == IF open THEN BOOLEAN ELSE {FALSE}

Did(ops, op) == \E i \in 1..Len(ops) : ops[i] = op

\* ------------------------------------------------------------ the program

\* main(), lines 42-117: the state when the epoch loop is entered.
Init ==
    /\ config \in [datasets : TaskNames, epochs : 0..MaxEpochs,
                   use_kd : BOOLEAN, use_emd : BOOLEAN,
                   hidn2attn : BOOLEAN, update_emd : BOOLEAN]
    /\ output_mode \in OutputModes
    /\ train_dataloader \in 0..MaxTrainBatches
    /\ eval_dataloader \in 0..MaxEvalBatches
    /\ pc = "loop"
    /\ err = NONE
    /\ epoch = 0
    /\ step = 0
    /\ model = [training |-> TRUE, updates |-> 0, drop_prob |-> <<0, 1>>]
    \* lines 94-105: the teacher is loaded, moved and put in eval mode iff use_kd
    /\ teacher_model = [loaded |-> config.use_kd, training |-> FALSE,
                        params |-> 0, tracked |-> FALSE, in_backward |-> FALSE]
    \* lines 90-92: the matcher exists iff use_emd and use_kd
    /\ emd_tool = [built |-> BuildsMatcher(config), weight |-> 0]
    /\ criterion = UNBOUND
    /\ lr_steps = 0
    /\ best_top1 = 0
    /\ top1 = Unbound
    /\ is_best = Unbound
    /\ checkpoints = <<>>
    /\ meters = [top1 |-> 0, losses |-> 0]
    /\ last_step = [ops |-> <<>>, loss |-> NoLoss, rep_loss |-> 0, at |-> <<0, 0>>,
                    student_training |-> TRUE, teacher_training |-> FALSE,
                    matcher |-> NoMatcherCall]
    /\ fields = [train |-> NONE, val |-> NONE]
    /\ hist = [n |-> 0, seen |-> Unbound, before |-> Unbound, best_before |-> 0]
    /\ flag_hist = <<>>
    /\ reported = Unbound
    /\ val = NoValidation(0, 0, FALSE)
    /\ trace = [events |-> <<>>, phases |-> <<Phase("Initializing", 0)>>, drops |-> <<>>]

\* main() lines 123-128 and train() lines 150-164: an epoch begins; the
\* drop-path probability is set (as a fraction epoch / epochs of the
\* ceiling), train() is entered, its meters are fresh, the student is put in
\* training mode and the criterion is selected.
TrainBegin ==
    /\ pc = "loop"
    /\ LoopContinues(epoch, config.epochs)
    /\ model' = [model EXCEPT !.drop_prob = DropPathProb(epoch, config.epochs),
                              !.training = StudentModeInTrain(@)]
    /\ meters' = [top1 |-> 0, losses |-> 0]
    /\ criterion' = SelectCriterion(output_mode)
    /\ step' = 0
    /\ pc' = "train"
    /\ trace' = [events |-> <<"drop_path">>,
                 phases |-> Append(trace.phases, Phase("Training", epoch)),
                 drops |-> Append(trace.drops, DropPathProb(epoch, config.epochs))]
    /\ UNCHANGED <<inputs, err, epoch, teacher_model, emd_tool, lr_steps,
                   best_top1, top1, is_best, checkpoints, last_step, fields,
                   hist, flag_hist, reported, val>>

\* train(), lines 166-234: one batch of the training loop.  kd_raises and
\* cm_raises are the answers of distillation_loss and compute_metrics to an
\* input outside their domain, rep is the matcher's loss.
TrainStep ==
    /\ pc = "train"
    /\ step < train_dataloader
    /\ \E kd_raises \in ExternalAnswers(config.use_kd /\ criterion = UNBOUND),
          cm_raises \in ExternalAnswers(config.datasets \notin KnownTasks),
          rep \in (IF config.use_kd /\ config.use_emd THEN RepLossValues ELSE {0}) :
        LET all == StepOps(config)
            n == Completed(all, criterion, output_mode, config.datasets,
                           emd_tool.built, kd_raises, cm_raises)
            ops == SubSeq(all, 1, n)
            raised == IF n = Len(all) THEN NONE
                      ELSE StepRaises(all[n + 1], criterion, output_mode,
                                      config.datasets, emd_tool.built, kd_raises, cm_raises)
            rep_loss == IF Did(ops, "emd_loss") THEN rep ELSE 0
            \* lines 185-190: the teacher forward runs with autograd enabled
            \* (the no_grad block of line 180 is commented out)
            tracked == teacher_model.tracked \/ Did(ops, "teacher_forward")
            \* line 200: flow and distance come from this batch's loss call
            res == EmdLossResult(epoch, step, MatcherLoss(emd_tool.weight))
        IN
        /\ last_step' = [ops |-> ops,
                         loss |-> IF Did(ops, "backward")
                                  THEN BackpropLoss(config, criterion, rep_loss)
                                  ELSE NoLoss,
                         rep_loss |-> rep_loss,
                         at |-> <<epoch, step>>,
                         student_training |-> model.training,
                         teacher_training |-> teacher_model.training,
                         matcher |->
                            IF Did(ops, "emd_loss")
                            THEN [used |-> emd_tool.weight,
                                  flow |-> res.flow,
                                  distance |-> res.distance,
                                  args |-> IF Did(ops, "update_weight")
                                           THEN UpdateWeightArgs(res.flow, res.distance)
                                           ELSE <<>>]
                            ELSE NoMatcherCall]
        /\ model' = [model EXCEPT !.updates =
                        IF Did(ops, "optimizer_step") THEN @ + 1 ELSE @]
        \* line 207: backward walks the graph of kd_loss, which holds the
        \* teacher's parameters when the teacher logits were tracked;
        \* line 112: the optimizer holds model.parameters() only, so params stays
        /\ teacher_model' = [teacher_model EXCEPT
                                !.tracked = tracked,
                                !.in_backward = @ \/ (Did(ops, "backward") /\ config.use_kd
                                                      /\ tracked)]
        /\ emd_tool' = [emd_tool EXCEPT !.weight =
                            IF Did(ops, "update_weight") THEN MatcherUpdateWeight(MatcherLoss(@))
                            ELSE IF Did(ops, "emd_loss") THEN MatcherLoss(@)
                            ELSE @]
        /\ meters' = [top1 |-> meters.top1 + (IF Did(ops, "top1_update") THEN 1 ELSE 0),
                      losses |-> meters.losses + (IF Did(ops, "losses_update") THEN 1 ELSE 0)]
        /\ fields' = [fields EXCEPT !.train =
                            IF Did(ops, "dispatch") THEN TrainDispatch(config.datasets) ELSE @]
        /\ err' = raised
        /\ pc' = IF raised = NONE THEN "train" ELSE "aborted"
        /\ step' = IF raised = NONE THEN step + 1 ELSE step
        /\ trace' = [trace EXCEPT !.events =
                        IF raised = NONE THEN Append(@, "train_step") ELSE @]
    /\ UNCHANGED <<inputs, epoch, criterion, lr_steps, best_top1, top1, is_best,
                   checkpoints, hist, flag_hist, reported, val>>

\* main() lines 130-133 and validate() lines 237-246: train() returns, the
\* scheduler is advanced, validate() is entered: criterion, eval mode, empty
\* preds and eval_labels.
TrainEnd ==
    /\ pc = "train"
    /\ step = train_dataloader
    /\ lr_steps' = LrSchedulerStep(lr_steps, train_dataloader)
    /\ trace' = [trace EXCEPT !.events = Append(@, "lr_step"),
                              !.phases = Append(@, Phase("Validating", epoch))]
    /\ criterion' = SelectCriterion(output_mode)
    /\ model' = [model EXCEPT !.training = StudentModeInValidate(@)]
    /\ meters' = [top1 |-> 0, losses |-> 0]
    /\ step' = 0
    /\ pc' = "validate"
    /\ val' = NoValidation(model.updates, emd_tool.weight, teacher_model.tracked)
    /\ UNCHANGED <<inputs, err, epoch, teacher_model, emd_tool, best_top1, top1,
                   is_best, checkpoints, last_step, fields, hist, flag_hist,
                   reported>>

\* validate(), lines 247-265: one batch of the evaluation loop; line 258
\* reads criterion, which is unbound for an unrecognized output mode.
ValidateBatch ==
    /\ pc = "validate"
    /\ step < eval_dataloader
    /\ LET all == ValidateOps(config)
           batch == EvalBatch(step, eval_dataloader)
       IN
       IF criterion = UNBOUND
       THEN /\ err' = "UnboundLocalError"
            /\ pc' = "aborted"
            /\ step' = step
            /\ val' = [val EXCEPT !.ops = SubSeq(all, 1, Len(all) - 3),
                                  !.student_training = model.training]
       ELSE /\ err' = err
            /\ pc' = pc
            /\ step' = step + 1
            /\ val' = [val EXCEPT !.ops = all,
                                  !.student_training = model.training,
                                  !.preds = AppendPreds(@, Logits(batch)),
                                  !.eval_labels = ExtendLabels(@, Labels(batch))]
    /\ UNCHANGED <<inputs, epoch, model, teacher_model, emd_tool, criterion,
                   lr_steps, best_top1, top1, is_best, checkpoints, meters,
                   last_step, fields, hist, flag_hist, reported, trace>>

\* validate(), lines 267-284: the aggregate metric; acc is the selected field
\* of the record compute_metrics returns, any value the metric can take.
ValidateEnd ==
    /\ pc = "validate"
    /\ step = eval_dataloader
    /\ \E cm_raises \in ExternalAnswers(config.datasets \notin KnownTasks),
          acc \in MetricValues :
        LET raised ==
              IF FirstPreds(step) # NONE THEN FirstPreds(step)
              ELSE IF cm_raises /\ config.datasets \notin KnownTasks THEN "KeyError"
              ELSE IF ValidateDispatch(config.datasets) = UNBOUND THEN "UnboundLocalError"
              ELSE NONE
            dispatched == FirstPreds(step) = NONE
                          /\ ~(cm_raises /\ config.datasets \notin KnownTasks)
        IN
        /\ fields' = [fields EXCEPT !.val =
                        IF dispatched THEN ValidateDispatch(config.datasets) ELSE @]
        /\ err' = raised
        /\ pc' = IF raised = NONE THEN "compare" ELSE "aborted"
        /\ top1' = IF raised = NONE THEN Bound(acc) ELSE top1
        /\ hist' = IF raised = NONE
                   THEN [hist EXCEPT !.n = @ + 1,
                                     !.before = hist.seen,
                                     !.seen = IF hist.seen = Unbound \/ hist.seen[1] < acc
                                              THEN Bound(acc) ELSE @]
                   ELSE hist
        \* line 272: compute_metrics(task_name, preds, eval_labels), once
        /\ val' = IF FirstPreds(step) = NONE
                  THEN [val EXCEPT !.metric_calls = @ + 1,
                                   !.metric_over =
                                       Postprocess(output_mode,
                                                   IF Len(val.preds) = 0 THEN <<>>
                                                   ELSE val.preds[1])]
                  ELSE val
        /\ trace' = [trace EXCEPT !.events =
                        IF raised = NONE THEN Append(@, "validate") ELSE @]
    /\ UNCHANGED <<inputs, epoch, step, model, teacher_model, emd_tool, criterion,
                   lr_steps, best_top1, is_best, checkpoints, meters, last_step,
                   flag_hist, reported>>

\* main(), lines 136-140: the best-model comparison.
Compare ==
    /\ pc = "compare"
    /\ LET flag == IsNewBest(best_top1, top1[1])
       IN /\ best_top1' = IF flag THEN top1[1] ELSE best_top1
          /\ is_best' = Bound(flag)
          /\ flag_hist' = Append(flag_hist, flag)
    /\ hist' = [hist EXCEPT !.best_before = best_top1]
    /\ pc' = "checkpoint"
    /\ trace' = [trace EXCEPT !.events = Append(@, "compare")]
    /\ UNCHANGED <<inputs, err, epoch, step, model, teacher_model, emd_tool,
                   criterion, lr_steps, top1, checkpoints, meters, last_step,
                   fields, reported, val>>

\* main(), lines 141-142: the checkpoint request; the for loop then advances
\* epoch.
Checkpoint ==
    /\ pc = "checkpoint"
    /\ checkpoints' = SaveCheckpoint(checkpoints, epoch, is_best[1])
    /\ epoch' = epoch + 1
    /\ pc' = "loop"
    /\ trace' = [trace EXCEPT !.events = Append(@, "checkpoint")]
    /\ UNCHANGED <<inputs, err, step, model, teacher_model, emd_tool, criterion,
                   lr_steps, best_top1, top1, is_best, meters, last_step, fields,
                   hist, flag_hist, reported, val>>

\* main(), line 145: the loop is exhausted, the final best value is logged.
Finish ==
    /\ pc = "loop"
    /\ ~LoopContinues(epoch, config.epochs)
    /\ reported' = Bound(best_top1)
    /\ pc' = "done"
    /\ trace' = [trace EXCEPT !.phases = Append(@, Phase("Finished", epoch))]
    /\ UNCHANGED <<inputs, err, epoch, step, model, teacher_model, emd_tool,
                   criterion, lr_steps, best_top1, top1, is_best, checkpoints,
                   meters, last_step, fields, hist, flag_hist, val>>

Next ==
    \/ TrainBegin
    \/ TrainStep
    \/ TrainEnd
    \/ ValidateBatch
    \/ ValidateEnd
    \/ Compare
    \/ Checkpoint
    \/ Finish

Spec == Init /\ [][Next]_vars

\* ----------------------------------------------------------------- claims

Recognized == {"classification", "regression"}

\* The dispatch table as documented: task identifier -> field of the record.
DocumentedField ==
    [t \in KnownTasks |->
        CASE t = "cola" -> "mcc"
          [] t \in {"sst-2", "mnli", "mnli-mm", "qnli", "rte", "books"} -> "acc"
          [] t \in {"mrpc", "qqp"} -> "f1"
          [] t = "sts-b" -> "corr"]

\* C1: at the end of a run of N >= 1 epochs the stored best value, which the
\* final line reports, equals the maximum of the metrics validate returned
\* over the N epochs, whatever their sign.
C1_BestIsMaxOfMetrics ==
    (pc = "done" /\ config.epochs >= 1) =>
        /\ best_top1 = hist.seen[1]
        /\ reported = hist.seen

\* C2: the is-best flag of an epoch is true exactly when that epoch's metric
\* is strictly greater than the metric of every earlier epoch, and the stored
\* best value changes in that epoch iff the flag is true.  (Read after the
\* comparison, before the next validate replaces top1.)
C2_FlagIffNewMaximum ==
    (is_best # Unbound /\ pc # "compare") =>
        /\ is_best[1] <=> (hist.before = Unbound \/ hist.before[1] < top1[1])
        /\ (best_top1 # hist.best_before) <=> is_best[1]

\* C3: for every task of the table, the dispatch of the training step and
\* the dispatch of the validation pass select the documented field, and the
\* two select the same field.
C3_DispatchSelectsDocumentedField ==
    config.datasets \in KnownTasks =>
        /\ fields.train # NONE => fields.train = DocumentedField[config.datasets]
        /\ fields.val # NONE => fields.val = DocumentedField[config.datasets]
        /\ (fields.train # NONE /\ fields.val # NONE) => fields.train = fields.val

C3_Witness ==
    /\ config.datasets = "qqp"
    /\ fields.train = "f1"
    /\ fields.val = "f1"

\* C4: for a task outside the table, a dispatch (training or validation)
\* fails with an explicit UnknownTaskError, and no metric of that task
\* reaches the running average or the best-model comparison.
C4_UnknownTaskFailsExplicitly ==
    (config.datasets \notin KnownTasks
        /\ (fields.train # NONE \/ fields.val # NONE)) =>
        /\ err = "UnknownTaskError"
        /\ meters.top1 = 0
        /\ top1 = Unbound

\* C5: a training step that gets past its loss assembly has invoked
\* update_weight iff use_kd, use_emd and update_emd are all set, no step
\* invokes it otherwise, and with update_emd unset the matcher's layer
\* weights keep their initial value through every step, validation pass and
\* epoch transition.
C5_UpdateWeightGated ==
    /\ Did(last_step.ops, "backward") =>
          (Did(last_step.ops, "update_weight")
              <=> (config.use_kd /\ config.use_emd /\ config.update_emd))
    /\ Did(last_step.ops, "update_weight") =>
          (config.use_kd /\ config.use_emd /\ config.update_emd)
    /\ ~config.update_emd => emd_tool.weight = 0
    /\ (config.use_kd /\ config.use_emd /\ config.update_emd /\ output_mode \in Recognized)
          => emd_tool.weight = model.updates

C5_Witness ==
    /\ pc = "done"
    /\ config.use_kd /\ config.use_emd /\ ~config.update_emd
    /\ emd_tool.built
    /\ model.updates >= 2
    /\ hist.n >= 2
    /\ Did(last_step.ops, "emd_loss")
    /\ emd_tool.weight = 0

\* C6: the scalar a training step backpropagates is chosen by use_kd alone:
\* without distillation it is the criterion of the output mode (cross-entropy
\* for classification, mean-squared error for regression) on (logits, y),
\* with distillation it is the KD blend; the matcher's loss contributes
\* nothing, for every setting of use_emd, hidn2attn and update_emd.
C6_BackpropLossSelectedByKdOnly ==
    Did(last_step.ops, "backward") =>
        /\ last_step.loss.rep_term = 0
        /\ config.use_kd => (last_step.loss.kd /\ last_step.loss.task = NONE)
        /\ ~config.use_kd =>
              /\ ~last_step.loss.kd
              /\ output_mode = "classification" => last_step.loss.task = "CrossEntropyLoss"
              /\ output_mode = "regression" => last_step.loss.task = "MSELoss"
              /\ output_mode \in Recognized

C6_Witness ==
    /\ Did(last_step.ops, "backward")
    /\ config.use_kd /\ config.use_emd /\ config.hidn2attn /\ config.update_emd
    /\ last_step.rep_loss = 2
    /\ last_step.loss = [task |-> NONE, kd |-> TRUE, rep_term |-> 0]

\* C7: when a teacher is used its forward pass is never recorded by
\* autograd, no backward pass walks a graph that holds its parameters, and
\* its parameters keep the values they had after loading.
C7_TeacherNeverInGradientPath ==
    teacher_model.loaded =>
        /\ ~teacher_model.tracked
        /\ ~teacher_model.in_backward
        /\ teacher_model.params = 0

\* C8: a run of N epochs issues exactly N checkpoint requests, one per
\* epoch, each after that epoch's validation pass and comparison and carrying
\* the is-best flag computed in that same epoch.
C8_OneCheckpointPerEpoch ==
    /\ Len(checkpoints) = epoch
    /\ pc = "done" => Len(checkpoints) = config.epochs
    /\ Len(checkpoints) <= Len(flag_hist)
    /\ Len(flag_hist) <= hist.n
    /\ hist.n <= Len(checkpoints) + 1
    /\ \A e \in 1..Len(checkpoints) :
          /\ checkpoints[e].epoch = e - 1
          /\ checkpoints[e].is_best = flag_hist[e]

C8_Witness ==
    /\ pc = "done"
    /\ config.epochs = 2
    /\ Len(checkpoints) = 2
    /\ checkpoints[1].is_best
    /\ ~checkpoints[2].is_best

\* C9: under an output mode that is neither classification nor regression
\* the run aborts with ConfigurationError before any training step or on the
\* first one, for every setting of the flags, and the optimizer never updates
\* the student.
C9_UnrecognizedModeIsConfigurationError ==
    output_mode \notin Recognized =>
        /\ model.updates = 0
        /\ pc = "aborted" => err = "ConfigurationError"
        /\ last_step.ops # <<>> => pc = "aborted"

\* C10: with an evaluation source of zero batches the validation pass ends in
\* an error and returns no metric, so no comparison is made, best_top1 keeps
\* its value and no is-best flag is derived.
C10_EmptyEvalFailsLoudly ==
    eval_dataloader = 0 =>
        /\ top1 = Unbound
        /\ hist.n = 0
        /\ is_best = Unbound
        /\ best_top1 = 0
        /\ pc \notin {"compare", "checkpoint"}
        /\ lr_steps > 0 => (pc \in {"validate", "aborted"} /\ lr_steps = 1)
        /\ (pc = "aborted" /\ lr_steps > 0) => err # NONE

C10_Witness ==
    /\ eval_dataloader = 0
    /\ config.datasets \in KnownTasks
    /\ output_mode \in Recognized
    /\ lr_steps = 1
    /\ pc = "aborted"
    /\ err = "IndexError"


IsPrefix(a, b) == Len(a) <= Len(b) /\ a = SubSeq(b, 1, Len(a))

\* The orchestrator's calls of one epoch over n training batches, in the
\* documented order.
ExpectedEvents(n) ==
    <<"drop_path">> \o [i \in 1..n |-> "train_step"]
    \o <<"lr_step", "validate", "compare", "checkpoint">>

\* C12: within every epoch the drop-path probability is applied, then one
\* training step runs per batch, then the scheduler is advanced once, then
\* validation, comparison and checkpoint request follow; over N epochs the
\* scheduler is advanced N times whatever the number of batches.
C12_EpochOrderAndSchedulerOncePerEpoch ==
    /\ IsPrefix(trace.events, ExpectedEvents(train_dataloader))
    /\ (pc \in {"loop", "done"} /\ epoch > 0)
          => trace.events = ExpectedEvents(train_dataloader)
    /\ pc \in {"loop", "train", "done"} => lr_steps = epoch
    /\ pc \in {"validate", "compare", "checkpoint"} => lr_steps = epoch + 1
    /\ pc = "aborted" => lr_steps \in {epoch, epoch + 1}
    /\ pc = "done" => lr_steps = config.epochs

C12_Witness ==
    /\ pc = "done"
    /\ config.epochs = 2
    /\ train_dataloader = 2
    /\ lr_steps = 2
    /\ model.updates = 4
    /\ trace.events = <<"drop_path", "train_step", "train_step", "lr_step",
                        "validate", "compare", "checkpoint">>

\* Drop-path probabilities as fractions of the ceiling: p < q, p = q.
FracLess(p, q) == p[1] * q[2] < q[1] * p[2]
FracEq(p, q) == p[1] * q[2] = q[1] * p[2]

\* What every reading of "linear from 0" shares: the first value is 0, the
\* values never exceed the ceiling and consecutive values differ by the same
\* amount.
DropPathLinearFromZero ==
    /\ \A i \in 1..Len(trace.drops) :
          /\ trace.drops[i][2] > 0
          /\ ~FracLess(<<1, 1>>, trace.drops[i])
    /\ Len(trace.drops) >= 1 => FracEq(trace.drops[1], <<0, 1>>)
    /\ \A i \in 1..(Len(trace.drops) - 1) :
          /\ FracLess(trace.drops[i], trace.drops[i + 1])
          /\ \A j \in 1..(Len(trace.drops) - 1) :
                trace.drops[i + 1][1] * trace.drops[i][2] * trace.drops[j + 1][2] * trace.drops[j][2]
                  - trace.drops[i][1] * trace.drops[i + 1][2] * trace.drops[j + 1][2] * trace.drops[j][2]
                = trace.drops[j + 1][1] * trace.drops[j][2] * trace.drops[i + 1][2] * trace.drops[i][2]
                  - trace.drops[j][1] * trace.drops[j + 1][2] * trace.drops[i + 1][2] * trace.drops[i][2]

\* C15 as stated: over E >= 1 epochs the drop-path probability is 0 in the
\* first epoch, grows by the same amount each epoch, never exceeds the
\* ceiling and equals the ceiling in the final epoch.
C15_DropPathReachesCeiling ==
    /\ DropPathLinearFromZero
    /\ (pc = "done" /\ config.epochs >= 1) =>
          FracEq(trace.drops[Len(trace.drops)], <<1, 1>>)

\* C15 amended: the probability applied in epoch e (counted from 0) is the
\* fraction e / E of the ceiling: 0 in the first epoch, growing by 1 / E of
\* the ceiling each epoch, and (E - 1) / E of the ceiling in the final epoch,
\* below the ceiling.
C15_DropPathLinearBelowCeiling ==
    /\ DropPathLinearFromZero
    /\ Len(trace.drops) <= config.epochs
    /\ \A i \in 1..Len(trace.drops) :
          /\ FracEq(trace.drops[i], <<i - 1, config.epochs>>)
          /\ FracLess(trace.drops[i], <<1, 1>>)
    /\ pc \notin {"loop", "done"} => model.drop_prob = trace.drops[Len(trace.drops)]
    /\ (pc = "done" /\ config.epochs >= 1) =>
          /\ Len(trace.drops) = config.epochs
          /\ FracEq(trace.drops[Len(trace.drops)], <<config.epochs - 1, config.epochs>>)

C15_Witness ==
    /\ pc = "done"
    /\ config.epochs = 2
    /\ trace.drops = <<<<0, 2>>, <<1, 2>>>>

\* The phases of a run of E epochs.
ExpectedPhases(E) ==
    [i \in 1..(2 * E + 2) |->
        IF i = 1 THEN Phase("Initializing", 0)
        ELSE IF i = 2 * E + 2 THEN Phase("Finished", E)
        ELSE IF i % 2 = 0 THEN Phase("Training", (i - 2) \div 2)
        ELSE Phase("Validating", (i - 3) \div 2)]

\* A configuration none of whose inputs is a fatal error of the design: a
\* task of the table, a recognized output mode, a non-empty evaluation source.
RunnableConfig ==
    /\ config.datasets \in KnownTasks
    /\ output_mode \in Recognized
    /\ eval_dataloader > 0

\* Number of actions a run has taken, from its position alone; a run of E
\* epochs takes at most RankBound of them.
Rank ==
    LET perEpoch == train_dataloader + eval_dataloader + 5
        pos == CASE pc = "loop" -> 0
                 [] pc = "train" -> 1 + step
                 [] pc = "validate" -> 2 + train_dataloader + step
                 [] pc = "compare" -> 3 + train_dataloader + eval_dataloader
                 [] pc = "checkpoint" -> 4 + train_dataloader + eval_dataloader
                 [] OTHER -> 0
    IN IF pc = "done" THEN config.epochs * perEpoch + 1
       ELSE IF pc = "aborted" THEN config.epochs * perEpoch + 2
       ELSE epoch * perEpoch + pos

\* C18 as stated, for the configurations with a known task and a recognized
\* output mode: with E >= 0 and finite sources the run reaches Finished, so a
\* run that has stopped has stopped there, having gone through Initializing,
\* Training(0), Validating(0), ..., Validating(E-1), Finished and reporting
\* the stored best value.
C18_RunEndsFinished ==
    (config.datasets \in KnownTasks /\ output_mode \in Recognized
        /\ pc \in {"done", "aborted"}) =>
        /\ pc = "done"
        /\ trace.phases = ExpectedPhases(config.epochs)
        /\ reported = Bound(best_top1)

\* The guard of one of the actions holds: the run can take its next step.
Ready ==
    \/ pc = "loop"
    \/ pc = "train" /\ step <= train_dataloader
    \/ pc = "validate" /\ step <= eval_dataloader
    \/ pc = "compare" /\ top1 # Unbound
    \/ pc = "checkpoint" /\ is_best # Unbound

C18_PhaseInvariant ==
    /\ IsPrefix(trace.phases, ExpectedPhases(config.epochs))
    /\ pc = "done" =>
          /\ trace.phases = ExpectedPhases(config.epochs)
          /\ reported = Bound(best_top1)
    /\ (RunnableConfig \/ config.epochs = 0) =>
          /\ pc # "aborted"
          /\ pc # "done" => Ready
    /\ (~RunnableConfig /\ config.epochs > 0) => pc # "done"

\* C18 amended: with E >= 0, finite sources and, when E >= 1, a task of the
\* table, a recognized output mode and a non-empty evaluation source, the run
\* goes through Initializing, Training(0), Validating(0), ...,
\* Validating(E-1), Finished, each phase once and in this order, never stops
\* before Finished, reaches it after a bounded number of actions (every
\* action raises Rank) and reports the stored best value there; any other run
\* with E >= 1 follows a prefix of that sequence and ends in an exception.
C18_PhasesAlternateAndTerminate ==
    /\ [](C18_PhaseInvariant)
    /\ [][Rank' > Rank]_vars

C18_Witness ==
    /\ pc = "done"
    /\ RunnableConfig
    /\ config.epochs = 2
    /\ trace.phases = <<Phase("Initializing", 0), Phase("Training", 0),
                        Phase("Validating", 0), Phase("Training", 1),
                        Phase("Validating", 1), Phase("Finished", 2)>>
    /\ reported = Bound(best_top1)

\* Number of calls of op in ops, and the place of its first call.
Count(ops, op) == Cardinality({i \in 1..Len(ops) : ops[i] = op})
Pos(ops, op) == CHOOSE i \in 1..Len(ops) : ops[i] = op

\* The calls that assemble the loss handed to backward.
LossAssemblyOps ==
    {"criterion", "teacher_forward", "distillation_loss", "convert_to_attn",
     "emd_loss", "update_weight"}
LossValueOps == {"criterion", "distillation_loss"}

\* Optimizer updates made by the training batches completed so far.
BatchesTrained ==
    epoch * train_dataloader
    + (CASE pc = "train" -> step
         [] pc \in {"validate", "compare", "checkpoint"} -> train_dataloader
         [] OTHER -> 0)

\* C13: in a training step, on every loss path, zero_grad, the student
\* forward, the loss assembly, backward, clipping and the optimizer update
\* each happen once per batch and in that order; the optimizer never steps
\* without a zero_grad, a backward and a clipping earlier in the same step,
\* and it has stepped exactly once for every batch trained.
C13_StepOrderOncePerBatch ==
    LET ops == last_step.ops
        chain == <<"zero_grad", "student_forward", "backward", "clip_grad_norm",
                   "optimizer_step">>
    IN
    /\ \A i \in 1..Len(chain) : Count(ops, chain[i]) <= 1
    /\ \A i \in 2..Len(chain) :
          Did(ops, chain[i]) =>
             Did(ops, chain[i - 1]) /\ Pos(ops, chain[i - 1]) < Pos(ops, chain[i])
    /\ Did(ops, "backward") =>
          /\ Cardinality({i \in 1..Len(ops) : ops[i] \in LossValueOps}) = 1
          /\ \A i \in 1..Len(ops) :
                ops[i] \in LossAssemblyOps =>
                   Pos(ops, "student_forward") < i /\ i < Pos(ops, "backward")
    /\ pc # "aborted" => model.updates = BatchesTrained

C13_Witness ==
    /\ pc = "train"
    /\ config.use_kd /\ config.use_emd
    /\ Did(last_step.ops, "emd_loss")
    /\ Did(last_step.ops, "optimizer_step")
    /\ model.updates >= 2

\* C14: with feedback enabled, a training step that computes the matcher
\* loss calls update_weight exactly once, after that loss call and before
\* backward, with the plan and distances that call returned in this very
\* step; the loss call of each step sees the weights as left by the update
\* of the step before.
C14_UpdateWeightUsesSameStepPlan ==
    LET ops == last_step.ops
        m == last_step.matcher
    IN
    (config.update_emd /\ Did(ops, "emd_loss") /\ Did(ops, "backward")) =>
        /\ Count(ops, "emd_loss") = 1
        /\ Count(ops, "update_weight") = 1
        /\ Pos(ops, "emd_loss") < Pos(ops, "update_weight")
        /\ Pos(ops, "update_weight") < Pos(ops, "backward")
        /\ m.flow = <<"flow", last_step.at[1], last_step.at[2], m.used>>
        /\ m.distance = <<"distance", last_step.at[1], last_step.at[2], m.used>>
        /\ m.args = <<m.flow, m.distance>>
        /\ m.used = last_step.at[1] * train_dataloader + last_step.at[2]

C14_Witness ==
    /\ config.update_emd
    /\ Did(last_step.ops, "update_weight")
    /\ Did(last_step.ops, "backward")
    /\ last_step.at[2] = 1
    /\ last_step.matcher.used = 1
    /\ emd_tool.weight = 2

\* The examples of the first n batches of the evaluation source, in
\* iteration order.
RECURSIVE ExamplesUpTo(_)
ExamplesUpTo(n) ==
    IF n = 0 THEN <<>>
    ELSE ExamplesUpTo(n - 1) \o EvalBatch(n - 1, eval_dataloader)

\* C16: over a non-empty evaluation source the aggregated predictions and
\* labels are the batches' concatenation in iteration order, entry i of each
\* belongs to the same example, both are sequences as long as the number of
\* examples, and the metric is computed once, over that full set.
C16_AggregatesAllBatchesInOrder ==
    (pc = "compare" /\ eval_dataloader >= 1) =>
        LET all == ExamplesUpTo(eval_dataloader)
            p == val.metric_over
        IN
        /\ val.metric_calls = 1
        /\ p.rank = 1
        /\ Len(p.items) = Len(all)
        /\ Len(val.eval_labels) = Len(all)
        /\ \A i \in 1..Len(all) :
              /\ p.items[i] = <<"pred", all[i]>>
              /\ val.eval_labels[i] = <<"label", all[i]>>

\* The calls a validation pass must never make.
TrainingOnlyOps ==
    {"teacher_forward", "distillation_loss", "convert_to_attn", "emd_loss",
     "update_weight", "zero_grad", "backward", "clip_grad_norm", "optimizer_step"}

\* C17: every training step, in every epoch, runs with the student in
\* training mode and, under distillation, a loaded teacher in evaluation
\* mode; every validation batch runs with the student in evaluation mode;
\* the validation pass calls neither teacher, matcher, backward nor
\* optimizer and leaves what they would change as it found it.
C17_ModesPerPhase ==
    /\ last_step.ops # <<>> =>
          /\ last_step.student_training
          /\ config.use_kd => (teacher_model.loaded /\ ~last_step.teacher_training)
    /\ pc = "train" => model.training
    /\ val.ops # <<>> =>
          /\ ~val.student_training
          /\ \A i \in 1..Len(val.ops) : val.ops[i] \notin TrainingOnlyOps
    /\ pc \in {"validate", "compare", "checkpoint"} =>
          /\ ~model.training
          /\ model.updates = val.entry.updates
          /\ emd_tool.weight = val.entry.weight
          /\ teacher_model.tracked = val.entry.tracked

C17_Witness ==
    /\ pc = "validate"
    /\ epoch = 1
    /\ config.use_kd
    /\ val.ops # <<>>
    /\ last_step.at[1] = 1
    /\ Did(last_step.ops, "optimizer_step")

\* C19: whatever the four flags, the matcher is built iff use_kd and use_emd
\* are both set; a step calls the matcher only when both are set, so never
\* while it is None; with use_emd set and use_kd unset the step unpacks the
\* layer representations, uses them nowhere and trains on the plain
\* criterion loss.
C19_MatcherBuiltIffUsed ==
    LET ops == last_step.ops
    IN
    /\ emd_tool.built <=> (config.use_kd /\ config.use_emd)
    /\ (Did(ops, "emd_loss") \/ Did(ops, "update_weight")) =>
          config.use_kd /\ config.use_emd /\ emd_tool.built
    /\ err # "AttributeError"
    /\ (config.use_emd /\ ~config.use_kd /\ Did(ops, "backward")) =>
          /\ Did(ops, "unpack")
          /\ \A i \in 1..Len(ops) :
                ops[i] \notin {"teacher_forward", "distillation_loss",
                               "convert_to_attn", "emd_loss", "update_weight"}
          /\ last_step.matcher = NoMatcherCall
          /\ last_step.rep_loss = 0
          /\ last_step.loss = [task |-> criterion, kd |-> FALSE, rep_term |-> 0]
          /\ emd_tool.weight = 0

C19_Witness ==
    /\ config.use_emd /\ ~config.use_kd
    /\ config.hidn2attn /\ config.update_emd
    /\ Did(last_step.ops, "unpack")
    /\ Did(last_step.ops, "optimizer_step")

====
